---- MODULE Spec2Model ----
(***************************************************************************)
(* Model of the invoice / bank-credit reconciliation engine of mc.py       *)
(* (class MatcheadorFacturas): the name normalizer, the family resolver    *)
(* and the four matching passes that accumulate self.resultados.           *)
(*                                                                         *)
(* Text is a sequence of character symbols ("a", "A", "a_acute", ...).    *)
(* Dates are day numbers.  Amounts are counted in hundredths of the        *)
(* currency unit; the float64 value the program holds for an amount of k   *)
(* hundredths is the double nearest to k/100 (see the float64 section).    *)
(***************************************************************************)
EXTENDS Integers, Sequences, FiniteSets, TLC

VARIABLES
    familias_df,    \* household registry: [columns, rows]
    ventas_df,      \* invoice table: sequence of rows
    banco_df,       \* bank table: sequence of rows (already filtered at load)
    resultados,     \* self.resultados: None or the sequence of Match Records
    prev,           \* self.resultados as it was when the last pass was called
    calls,          \* the passes called in the run in progress, in order
    driver,         \* who calls the passes: ejecutar_matcheo or a full four-pass run
    faltante,       \* the column one of the tables lacks, if any: [tabla, col]
    pc,             \* position of the driver: next pass, "done" or "error"
    run,            \* number of the pipeline run in progress
    final1,         \* self.resultados as the first pipeline run left it
    arg,            \* argument of a pure-function call
    ret,            \* its result
    reporte         \* what generar_reporte_completo wrote after the passes

vars == <<familias_df, ventas_df, banco_df, resultados, prev, calls, driver, faltante, pc, run,
          final1, arg, ret, reporte>>

\* the last pass called ("none" before the first)
last == IF calls = <<>> THEN "none" ELSE calls[Len(calls)]

----------------------------------------------------------------------------
(* Generic helpers *)

Range(s) == {s[i] : i \in 1..Len(s)}

Abs(x) == IF x < 0 THEN -x ELSE x

Min(a, b) == IF a <= b THEN a ELSE b

RECURSIVE SumSeq(_)
SumSeq(s) == IF s = <<>> THEN 0 ELSE s[1] + SumSeq(Tail(s))

RECURSIVE Flatten(_)
Flatten(ss) == IF ss = <<>> THEN <<>> ELSE ss[1] \o Flatten(Tail(ss))

\* All sequences over S of length 0..n
SeqsUpTo(S, n) == UNION {[1..k -> S] : k \in 0..n}

\* All orderings (as sequences without repetition) of a finite set
Orderings(S) == {f \in [1..Cardinality(S) -> S] : Range(f) = S}

----------------------------------------------------------------------------
(* Characters and the Python string operations the program applies *)

\* pandas NaN / None: the absent value of a cell
NaN == <<"NaN">>

\* pd.isna on a text cell
isna(x) == x = NaN

\* NaN / NaT in a column of numbers or dates (every amount and day number is positive)
NaN_num == 0 - 1

\* pd.isna on a number or a date
isna_num(x) == x = NaN_num

Whitespace == {" ", "TAB"}

Punctuation == {",", ".", "-"}

LowerLetters == {"a", "b", "c", "d", "n", "x"}

UpperLetters == {"A", "B", "C", "D", "N", "X"}

AccentedLower == {"a_acute", "n_tilde"}

AccentedUpper == {"A_ACUTE", "N_TILDE"}

CombiningMarks == {"COMB_ACUTE", "COMB_TILDE"}

Digits == {"0", "1"}

\* the class A-Z of the regular expression
AZ == UpperLetters

\* str.upper() on one character
upper_char(c) ==
    CASE c = "a" -> "A" [] c = "b" -> "B" [] c = "c" -> "C" [] c = "d" -> "D"
      [] c = "x" -> "X" [] c = "n" -> "N"
      [] c = "a_acute" -> "A_ACUTE" [] c = "n_tilde" -> "N_TILDE"
      [] OTHER -> c

\* str.upper()
upper(s) == [i \in 1..Len(s) |-> upper_char(s[i])]

\* str.strip(): drop leading and trailing whitespace
RECURSIVE lstrip(_)
lstrip(s) == IF s # <<>> /\ s[1] \in Whitespace THEN lstrip(Tail(s)) ELSE s

RECURSIVE rstrip(_)
rstrip(s) ==
    IF s # <<>> /\ s[Len(s)] \in Whitespace THEN rstrip(SubSeq(s, 1, Len(s) - 1)) ELSE s

strip(s) == rstrip(lstrip(s))

\* unicodedata.normalize('NFKD', .) on one character
nfkd_char(c) ==
    CASE c = "a_acute" -> <<"a", "COMB_ACUTE">>
      [] c = "A_ACUTE" -> <<"A", "COMB_ACUTE">>
      [] c = "n_tilde" -> <<"n", "COMB_TILDE">>
      [] c = "N_TILDE" -> <<"N", "COMB_TILDE">>
      [] OTHER -> <<c>>

normalize_NFKD(s) == Flatten([i \in 1..Len(s) |-> nfkd_char(s[i])])

\* unicodedata.combining(ch) != 0
combining(ch) == ch \in CombiningMarks

\* a substitution that deletes the other characters instead of blanking them
re_sub_non_alnum_borra(s) == SelectSeq(s, LAMBDA ch : ch \in AZ \cup Digits \cup Whitespace)

\* re.sub(r'[^A-Z0-9\s]', ' ', s)
re_sub_non_alnum(s) ==
    [i \in 1..Len(s) |-> IF s[i] \in AZ \cup Digits \cup Whitespace THEN s[i] ELSE " "]

\* str.split(): the maximal runs of non-whitespace characters, in order
RECURSIVE split_from(_, _, _)
split_from(s, cur, out) ==
    IF s = <<>> THEN (IF cur = <<>> THEN out ELSE Append(out, cur))
    ELSE IF s[1] \in Whitespace
         THEN split_from(Tail(s), <<>>, IF cur = <<>> THEN out ELSE Append(out, cur))
         ELSE split_from(Tail(s), Append(cur, s[1]), out)

split(s) == split_from(s, <<>>, <<>>)

\* a in b for strings: a occurs in b as a contiguous run
contains(b, a) ==
    \E i \in 0..(Len(b) - Len(a)) : SubSeq(b, i + 1, i + Len(a)) = a

----------------------------------------------------------------------------
(* float64 amounts.  An amount of k hundredths (k >= 1) is held as the     *)
(* double nearest to k/100: with 2^e <= k/100 < 2^(e+1) and p = 52 - e it  *)
(* is (k * 2^p + r) / (100 * 2^p), r the rounding residue in -49..50.      *)
(* Two such doubles one hundredth apart are within a factor of two, so     *)
(* their difference is computed exactly (k >= 2), and comparing it with    *)
(* the double 0.01 compares the residues scaled to the unit 1/(100*2^59).  *)

RECURSIVE Pow2(_)
Pow2(n) == IF n = 0 THEN 1 ELSE 2 * Pow2(n - 1)

RECURSIVE Pow2Mod100(_)
Pow2Mod100(n) == IF n = 0 THEN 1 ELSE (2 * Pow2Mod100(n - 1)) % 100

\* q = e + 7: the largest q with 2^q * 100 <= k * 128
RECURSIVE BinadeFrom(_, _)
BinadeFrom(k, q) == IF Pow2(q + 1) * 100 <= k * 128 THEN BinadeFrom(k, q + 1) ELSE q

Binade(k) == BinadeFrom(k, 0)

\* r: 100 * mantissa - k * 2^p, for round-to-nearest (a tie cannot occur)
RoundResidue(k) ==
    LET t == ((k % 100) * Pow2Mod100(59 - Binade(k))) % 100
    IN  IF t < 50 THEN -t ELSE 100 - t

\* double(k/100) - k/100 in units of 1/(100 * 2^59)
ScaledErr(k) == RoundResidue(k) * Pow2(Binade(k))

\* float(a) - float(b) - 0.01 in units of 1/(100 * 2^59), for a = b + 1
ExcessOverTol(a, b) == ScaledErr(a) - ScaledErr(b) - ScaledErr(1)

\* abs(float(a) - float(b)) <= 0.01 (mc.py 863, TOL)
float_abs_diff_le_tol(a, b) ==
    CASE a = b -> TRUE
      [] a = b + 1 -> ExcessOverTol(a, b) <= 0
      [] b = a + 1 -> ExcessOverTol(b, a) <= 0
      [] OTHER -> FALSE

\* abs(float(a) - float(b)) < 0.01 (mc.py 690)
float_abs_diff_lt_tol(a, b) ==
    CASE a = b -> TRUE
      [] a = b + 1 -> ExcessOverTol(a, b) < 0
      [] b = a + 1 -> ExcessOverTol(b, a) < 0
      [] OTHER -> FALSE

----------------------------------------------------------------------------
(* Name Normalizer and Family Resolver *)

NO_IDENTIFICADA == "No identificada"

NO_ENCONTRADA == "No encontrada"

\* mc.py 303-313
_normalize_to_token_set(text) ==
    IF isna(text) \/ text = <<>> THEN {}
    ELSE LET s1 == strip(upper(text))
             s2 == normalize_NFKD(s1)
             s3 == SelectSeq(s2, LAMBDA ch : ~combining(ch))
             s4 == re_sub_non_alnum(s3)
         IN  Range(split(s4))

\* Python's order on the column names of the model (str.__lt__): upper case first
ColRank(c) ==
    CASE c = "Codigo" -> 1 [] c = "Persona_1" -> 2 [] c = "Persona_2" -> 3
      [] c = "persona_3" -> 4

\* 'persona' in col.lower()
is_persona_lower(c) == c \in {"Persona_1", "Persona_2", "persona_3"}

\* col.startswith('Persona_')
startswith_Persona_(c) == c \in {"Persona_1", "Persona_2"}

\* list.sort() of a list of distinct column names
SortCols(cols) ==
    CHOOSE f \in Orderings(Range(cols)) :
        \A i, j \in 1..Len(f) : i < j => ColRank(f[i]) < ColRank(f[j])

\* mc.py 318-319
columnas_persona(fam) == SortCols(SelectSeq(fam.columns, is_persona_lower))

\* a cell test without the third alternative (cell tokens inside the query tokens)
celda_coincide_sin_superconjunto(cell, nombre_buscar_tokens) ==
    /\ ~isna(cell)
    /\ LET valor_celda_tokens == _normalize_to_token_set(cell)
       IN  /\ valor_celda_tokens # {}
           /\ nombre_buscar_tokens \subseteq valor_celda_tokens

\* mc.py 324-332: does the cell decide the search for these query tokens
celda_coincide(cell, nombre_buscar_tokens) ==
    /\ ~isna(cell)
    /\ LET valor_celda_tokens == _normalize_to_token_set(cell)
       IN  /\ valor_celda_tokens # {}
           /\ \/ nombre_buscar_tokens = valor_celda_tokens
              \/ nombre_buscar_tokens \subseteq valor_celda_tokens
              \/ valor_celda_tokens \subseteq nombre_buscar_tokens

\* mc.py 321-335: rows in order; the first row with a deciding cell wins
RECURSIVE buscar_familia(_, _, _)
buscar_familia(rows, cols, tokens) ==
    IF rows = <<>> THEN NO_ENCONTRADA
    ELSE IF \E i \in 1..Len(cols) : celda_coincide(rows[1].cells[cols[i]], tokens)
         THEN rows[1].Codigo
         ELSE buscar_familia(Tail(rows), cols, tokens)

\* mc.py 297-335
_obtener_familia_por_persona(fam, nombre_persona) ==
    IF isna(nombre_persona) \/ nombre_persona = <<>> THEN NO_IDENTIFICADA
    ELSE buscar_familia(fam.rows, columnas_persona(fam),
                        _normalize_to_token_set(nombre_persona))

----------------------------------------------------------------------------
(* Match Records and the transaction identity keys the passes compute *)

\* ",".join(items): the items with a "," between neighbours
RECURSIVE join_comma(_)
join_comma(items) ==
    IF items = <<>> THEN <<>>
    ELSE IF Len(items) = 1 THEN <<items[1]>>
    ELSE <<items[1], ",">> \o join_comma(Tail(items))

\* [x.strip() for x in val.split(',') if x.strip()]: an invoice number is one symbol
split_comma(val) == SelectSeq(val, LAMBDA x : x # ",")

\* NaN in a column of household codes
NaN_code == "NaN"

\* one row of self.resultados (a column a pass does not write is NaN)
MatchRecord(tipo, familia, factura, banco, monto_factura) ==
    [Tipo_Match |-> tipo,
     Familia |-> familia,
     Factura |-> factura,
     Fecha_Banco |-> banco.Fecha,
     Nombre_Banco |-> banco.Nombre,
     Monto_Banco |-> banco.Monto,
     Monto_Factura |-> monto_factura]

\* (pd.to_datetime(fecha), str(nombre).upper().strip(), float(monto))
key_upper_strip(fecha, nombre, monto) == <<fecha, strip(upper(nombre)), monto>>

\* the consumed set of a pass that did not read the match list
matched_ops_vacio(res) == {}

\* mc.py 465-478, 502-511, 767-779: keys of the records already in self.resultados
matched_ops_of(res) ==
    {key_upper_strip(res[i].Fecha_Banco, res[i].Nombre_Banco, res[i].Monto_Banco) :
        i \in 1..Len(res)}

\* mc.py 481-485: invoice numbers named by the records of self.resultados
facturas_matcheadas_of(res) ==
    UNION {Range(split_comma(res[i].Factura)) : i \in 1..Len(res)}

\* DataFrame.dropna(subset=['Fecha', 'Nombre_Cliente', 'Monto'])
venta_completa(v) == ~isna_num(v.Fecha) /\ ~isna(v.Nombre_Cliente) /\ ~isna_num(v.Monto)

----------------------------------------------------------------------------
(* Pass 1: matcheo_exacto, mc.py 338-423 *)

\* mc.py 380-386: the bank rows equal to the invoice in date, upper-cased name, amount
coincidencias_exactas(banco, venta) ==
    SelectSeq(banco, LAMBDA b :
        /\ b.Fecha = venta.Fecha
        /\ upper(b.Nombre) = upper(venta.Nombre_Cliente)
        /\ b.Monto = venta.Monto)

\* mc.py 388-410: one record per coinciding bank row
records_exactos(fam, banco, venta) ==
    LET co == coincidencias_exactas(banco, venta)
        familia == _obtener_familia_por_persona(fam, venta.Nombre_Cliente)
    IN  [i \in 1..Len(co) |->
            MatchRecord("EXACTO", familia, <<venta.Factura>>, co[i], venta.Monto)]

\* mc.py 355-416: the list built by the loop over self.ventas_df
RECURSIVE exacto_loop(_, _, _)
exacto_loop(fam, banco, ventas) ==
    IF ventas = <<>> THEN <<>>
    ELSE (IF venta_completa(ventas[1])
          THEN records_exactos(fam, banco, ventas[1]) ELSE <<>>)
         \o exacto_loop(fam, banco, Tail(ventas))

\* what pass 1 would leave if it appended to the list instead of replacing it
exacto_resultados_append(old, nuevos) == old \o nuevos

\* mc.py 416: self.resultados = pd.DataFrame(resultados)
exacto_resultados(old, nuevos) == nuevos

\* the value of self.resultados matcheo_exacto leaves
matcheo_exacto_result(fam, ventas, banco, old) ==
    [raised |-> FALSE,
     resultados |-> exacto_resultados(old, exacto_loop(fam, banco, ventas))]

----------------------------------------------------------------------------
(* Pass 2: matcheo_multifacturas_misma_familia_dia_caja, mc.py 425-634 *)

\* mc.py 488-499: unmatched complete invoices with an identified family, annotated
ventas_validas_dia_caja(fam, ventas, res) ==
    LET libres == SelectSeq(ventas, LAMBDA v :
                      v.Factura \notin facturas_matcheadas_of(res) /\ venta_completa(v))
        anotadas == [i \in 1..Len(libres) |->
                      [v |-> libres[i],
                       Codigo_Familia |->
                           _obtener_familia_por_persona(fam, libres[i].Nombre_Cliente)]]
    IN  SelectSeq(anotadas, LAMBDA a :
            a.Codigo_Familia \notin {NO_ENCONTRADA, NO_IDENTIFICADA})

\* mc.py 514-523: the bank rows whose key no record holds
banco_disponible_of(banco, res) ==
    SelectSeq(banco, LAMBDA b :
        key_upper_strip(b.Fecha, b.Nombre, b.Monto) \notin matched_ops_of(res))

\* Python's order on the household codes of the model
CodeRank(c) == CASE c = "F1" -> 1 [] c = "F2" -> 2 [] OTHER -> 3

\* the order of the group keys (Fecha, Numero_Caja, Codigo_Familia) under groupby
GroupKeyLess(k1, k2) ==
    \/ k1[1] < k2[1]
    \/ k1[1] = k2[1] /\ k1[2] < k2[2]
    \/ k1[1] = k2[1] /\ k1[2] = k2[2] /\ CodeRank(k1[3]) < CodeRank(k2[3])

RECURSIVE SortKeys(_)
SortKeys(K) ==
    IF K = {} THEN <<>>
    ELSE LET m == CHOOSE k \in K : \A o \in K \ {k} : GroupKeyLess(k, o)
         IN  <<m>> \o SortKeys(K \ {m})

group_key(a) == <<a.v.Fecha, a.v.Numero_Caja, a.Codigo_Familia>>

\* mc.py 533: the group keys in iteration order
grouped_keys(vv) == SortKeys({group_key(vv[i]) : i \in 1..Len(vv)})

\* mc.py 548: total_monto = float(np.sum(montos))
total_monto_of(grupo) == SumSeq([i \in 1..Len(grupo) |-> grupo[i].v.Monto])

\* a list of the group's invoice numbers that leaves out the last one
facturas_of_sin_ultima(grupo) == [i \in 1..(Len(grupo) - 1) |-> grupo[i].v.Factura]

\* mc.py 546: facturas = list(grupo['Factura'])
facturas_of(grupo) == [i \in 1..Len(grupo) |-> grupo[i].v.Factura]

\* the local variable mask before its first assignment
MASK_UNBOUND == [bound |-> FALSE, idx |-> {}]

\* the mask of a pass that did not compare the family of the payer
mask_after_group_sin_familia(fam, bd, fecha, total, codigo, mask) ==
    LET candidatos == {i \in 1..Len(bd) : bd[i].Fecha = fecha /\ bd[i].Monto = total}
    IN  IF candidatos # {} THEN [bound |-> TRUE, idx |-> candidatos] ELSE mask

\* mc.py 558-566: mask is assigned only when a bank row has the date and the total
mask_after_group(fam, bd, fecha, total, codigo, mask) ==
    LET candidatos == {i \in 1..Len(bd) : bd[i].Fecha = fecha /\ bd[i].Monto = total}
    IN  IF candidatos # {}
        THEN [bound |-> TRUE,
              idx |-> {i \in candidatos :
                          _obtener_familia_por_persona(fam, bd[i].Nombre) = codigo}]
        ELSE mask

\* mc.py 577-623: the loop over coincidencias, from bank position i on
RECURSIVE coincidencias_loop(_, _, _, _, _, _)
coincidencias_loop(bd, idx, i, grupo, codigo, st) ==
    IF i > Len(bd) THEN st
    ELSE LET k == key_upper_strip(bd[i].Fecha, bd[i].Nombre, bd[i].Monto)
         IN  IF i \notin idx \/ k \in st.matched_ops
             THEN coincidencias_loop(bd, idx, i + 1, grupo, codigo, st)
             ELSE coincidencias_loop(bd, idx, i + 1, grupo, codigo,
                    [st EXCEPT
                       !.nuevos = Append(@, MatchRecord("MULTI_FACTURAS", codigo,
                                      join_comma(facturas_of(grupo)), bd[i],
                                      total_monto_of(grupo))),
                       !.matched_ops = @ \cup {k}])

\* mc.py 538-623: the loop over the groups; st = [mask, matched_ops, nuevos, raised]
RECURSIVE grupos_loop(_, _, _, _, _)
grupos_loop(fam, vv, bd, keys, st) ==
    IF keys = <<>> \/ st.raised THEN st
    ELSE LET grupo == SelectSeq(vv, LAMBDA a : group_key(a) = keys[1])
             mask == mask_after_group(fam, bd, keys[1][1], total_monto_of(grupo),
                                      keys[1][3], st.mask)
         IN  IF Len(grupo) < 2 THEN grupos_loop(fam, vv, bd, Tail(keys), st)
             ELSE IF ~mask.bound
                  \* mc.py 575: banco_disponible[mask] raises UnboundLocalError
                  THEN [st EXCEPT !.raised = TRUE]
                  ELSE grupos_loop(fam, vv, bd, Tail(keys),
                         coincidencias_loop(bd, mask.idx, 1, grupo, keys[1][3],
                                            [st EXCEPT !.mask = mask]))

\* a concatenation that puts the new records before the existing ones
concat_resultados_delante(old, nuevos) == nuevos \o old

\* mc.py 626-631: the new records go after the existing ones
concat_resultados(old, nuevos) == old \o nuevos

\* the value of self.resultados the pass leaves, and whether it raised
matcheo_multifacturas_misma_familia_dia_caja_result(fam, ventas, banco, old) ==
    LET vv == ventas_validas_dia_caja(fam, ventas, old)
        st == grupos_loop(fam, vv, banco_disponible_of(banco, old), grouped_keys(vv),
                  [mask |-> MASK_UNBOUND, matched_ops |-> matched_ops_of(old),
                   nuevos |-> <<>>, raised |-> FALSE])
    IN  IF st.raised THEN [raised |-> TRUE, resultados |-> old]
        ELSE [raised |-> FALSE, resultados |-> concat_resultados(old, st.nuevos)]

----------------------------------------------------------------------------
(* Pass 3: matcheo_por_grupo_familiar, mc.py 636-715 *)

\* the value None of a household code
None_code == "None"

\* mc.py 643: the Persona_ columns in the order of the table
columnas_Persona_(fam) == SelectSeq(fam.columns, startswith_Persona_)

\* mc.py 642-646: the first row with a cell that contains the name
RECURSIVE buscar_pertenencia(_, _, _)
buscar_pertenencia(rows, cols, nombre) ==
    IF rows = <<>> THEN None_code
    ELSE IF \E i \in 1..Len(cols) :
                /\ ~isna(rows[1].cells[cols[i]])
                /\ contains(upper(strip(rows[1].cells[cols[i]])), upper(strip(nombre)))
         THEN rows[1].Codigo
         ELSE buscar_pertenencia(Tail(rows), cols, nombre)

\* mc.py 636-646
_validar_pertenencia_familia(fam, nombre_persona) ==
    IF isna(nombre_persona) \/ nombre_persona = <<>> THEN None_code
    ELSE buscar_pertenencia(fam.rows, columnas_Persona_(fam), nombre_persona)

\* str(Timestamp) of a date whose time is midnight: 'YYYY-MM-DD 00:00:00'
str_Timestamp(d) == <<d, "00:00:00">>

\* Series.astype(str) of a datetime64 column whose times are all midnight: 'YYYY-MM-DD'
astype_str_datetime(d) == <<d>>

\* mc.py 660-664: the keys of the records already in self.resultados
matched_ops_astype_str(res) ==
    {<<astype_str_datetime(res[i].Fecha_Banco), res[i].Nombre_Banco, res[i].Monto_Banco>> :
        i \in 1..Len(res)}

\* mc.py 671
op_key_of(op_banco) == <<str_Timestamp(op_banco.Fecha), op_banco.Nombre, op_banco.Monto>>

\* mc.py 682-691: the invoice is of the payer's family, within 0.01 and within one day
factura_de_familia_coincide(fam, op_banco, familia_pagador, factura) ==
    LET familia_cliente == _validar_pertenencia_familia(fam, factura.Nombre_Cliente)
    IN  /\ familia_cliente # None_code
        /\ familia_cliente = familia_pagador
        /\ ~isna_num(factura.Monto)
        /\ ~isna_num(factura.Fecha)
        /\ float_abs_diff_lt_tol(op_banco.Monto, factura.Monto)
        /\ Abs(op_banco.Fecha - factura.Fecha) <= 1

\* mc.py 670-707: the loop over self.banco_df; st = [matched_ops, nuevos]
RECURSIVE grupo_familiar_loop(_, _, _, _)
grupo_familiar_loop(fam, ventas, banco, st) ==
    IF banco = <<>> THEN st
    ELSE LET op_banco == banco[1]
             familia_pagador == _validar_pertenencia_familia(fam, op_banco.Nombre)
             hits == {j \in 1..Len(ventas) :
                         factura_de_familia_coincide(fam, op_banco, familia_pagador,
                                                     ventas[j])}
         IN  IF \/ op_key_of(op_banco) \in st.matched_ops
                \/ familia_pagador = None_code
                \/ hits = {}
             THEN grupo_familiar_loop(fam, ventas, Tail(banco), st)
             ELSE LET factura == ventas[CHOOSE j \in hits : \A o \in hits : j <= o]
                  IN  grupo_familiar_loop(fam, ventas, Tail(banco),
                        [matched_ops |-> st.matched_ops \cup {op_key_of(op_banco)},
                         nuevos |-> Append(st.nuevos,
                             MatchRecord("Grupo Familiar", NaN_code, <<factura.Factura>>,
                                         op_banco, factura.Monto))])

\* the value of self.resultados the pass leaves
matcheo_por_grupo_familiar_result(fam, ventas, banco, old) ==
    LET st == grupo_familiar_loop(fam, ventas, banco,
                  [matched_ops |-> matched_ops_astype_str(old), nuevos |-> <<>>])
    IN  [raised |-> FALSE, resultados |-> concat_resultados(old, st.nuevos)]

----------------------------------------------------------------------------
(* Pass 4: matcheo_multifacturas_misma_familia_mismo_dia_caja, mc.py 717-908 *)

TOL == 1

MAX_CANDIDATOS == 15

MAX_K == 8

\* sort_values on a short frame: a stable sort, ascending in the pair (k1, k2)
KeyLess(x, y) == x.k1 < y.k1 \/ (x.k1 = y.k1 /\ x.k2 < y.k2)

RECURSIVE insert_sorted(_, _)
insert_sorted(x, sorted) ==
    IF sorted = <<>> THEN <<x>>
    ELSE IF KeyLess(x, sorted[1]) THEN <<x>> \o sorted
    ELSE <<sorted[1]>> \o insert_sorted(x, Tail(sorted))

RECURSIVE stable_sort(_)
stable_sort(s) ==
    IF s = <<>> THEN <<>>
    ELSE insert_sorted(s[Len(s)], stable_sort(SubSeq(s, 1, Len(s) - 1)))

\* itertools.combinations(range(lo, n + 1), k), positions counted from 1
RECURSIVE combinations_from(_, _, _)
combinations_from(lo, n, k) ==
    IF k = 0 THEN << <<>> >>
    ELSE IF lo > n - k + 1 THEN <<>>
    ELSE LET with == combinations_from(lo + 1, n, k - 1)
         IN  [i \in 1..Len(with) |-> <<lo>> \o with[i]] \o combinations_from(lo + 1, n, k)

\* mc.py 853-857: the combinations in the order the two loops visit them
RECURSIVE combos_in_order(_, _, _)
combos_in_order(n, k, max_k) ==
    IF k > max_k THEN <<>>
    ELSE combinations_from(1, n, k) \o combos_in_order(n, k + 1, max_k)

\* mc.py 782-786
extraer_apellido(nombre) ==
    IF isna(nombre) THEN <<>>
    ELSE LET partes == split(strip(upper(nombre)))
         IN  IF Len(partes) > 0 THEN partes[Len(partes)] ELSE <<>>

\* mc.py 756-761: complete invoices with their index label and family code
ventas_validas_familia(fam, ventas) ==
    LET idx == SelectSeq([i \in 1..Len(ventas) |-> i], LAMBDA i : venta_completa(ventas[i]))
    IN  [j \in 1..Len(idx) |->
            [v |-> ventas[idx[j]],
             label |-> idx[j] - 1,
             Codigo_Familia_Venta |->
                 _obtener_familia_por_persona(fam, ventas[idx[j]].Nombre_Cliente)]]

\* mc.py 808: the payer's family was identified
familia_identificada(codigo) == codigo \notin {NO_ENCONTRADA, NO_IDENTIFICADA, None_code, ""}

\* mc.py 808-828: the unused candidates of a bank row, in table order
candidatos_of(vv, usados, codigo, nombre) ==
    IF familia_identificada(codigo)
    THEN SelectSeq(vv, LAMBDA a :
             a.Codigo_Familia_Venta = codigo /\ a.label \notin usados)
    ELSE SelectSeq(vv, LAMBDA a :
             /\ contains(upper(a.v.Nombre_Cliente), extraer_apellido(nombre))
             /\ a.label \notin usados)

\* the ordering of the candidates without the cut to the first 15
candidatos_sin_corte(cands, fecha_b) ==
    LET por_fecha == stable_sort([i \in 1..Len(cands) |->
                         [a |-> cands[i], k1 |-> cands[i].v.Fecha, k2 |-> 0]])
        por_cercania == stable_sort([i \in 1..Len(por_fecha) |->
                         [a |-> por_fecha[i].a,
                          k1 |-> Abs(por_fecha[i].a.v.Fecha - fecha_b),
                          k2 |-> 0 - por_fecha[i].a.v.Monto]])
    IN  [i \in 1..Len(por_cercania) |-> por_cercania[i].a]

\* mc.py 835-847: by date, then by day distance and falling amount; the first 15
candidatos_restringidos_of(cands, fecha_b) ==
    LET por_fecha == stable_sort([i \in 1..Len(cands) |->
                         [a |-> cands[i], k1 |-> cands[i].v.Fecha, k2 |-> 0]])
        por_cercania == stable_sort([i \in 1..Len(por_fecha) |->
                         [a |-> por_fecha[i].a,
                          k1 |-> Abs(por_fecha[i].a.v.Fecha - fecha_b),
                          k2 |-> 0 - por_fecha[i].a.v.Monto]])
    IN  [i \in 1..Min(MAX_CANDIDATOS, Len(por_cercania)) |-> por_cercania[i].a]

\* mc.py 860: suma = float(subset['Monto'].sum())
suma_of(cr, combo) == SumSeq([i \in 1..Len(combo) |-> cr[combo[i]].v.Monto])

\* mc.py 863
suma_coincide(suma, monto_banco) == float_abs_diff_le_tol(suma, monto_banco)

\* mc.py 852-863: the accepted combinations, in visiting order
aceptadas_of(cr, monto_banco) ==
    SelectSeq(combos_in_order(Len(cr), 2, Min(MAX_K, Len(cr))),
              LAMBDA combo : suma_coincide(suma_of(cr, combo), monto_banco))

\* mc.py 891: subset.index holds the positions in the re-indexed candidate frame
labels_marcados(cr, combo) == {combo[i] - 1 : i \in 1..Len(combo)}

\* mc.py 792-895: the loop over self.banco_df; st = [matched_ops, nuevos, usados, raised]
RECURSIVE familia_banco_loop(_, _, _, _)
familia_banco_loop(fam, vv, banco, st) ==
    IF banco = <<>> \/ st.raised THEN st
    ELSE LET b == banco[1]
             k == key_upper_strip(b.Fecha, b.Nombre, b.Monto)
             codigo == _obtener_familia_por_persona(fam, b.Nombre)
             cands == candidatos_of(vv, st.usados, codigo, b.Nombre)
             cr == candidatos_restringidos_of(cands, b.Fecha)
             aceptadas == aceptadas_of(cr, b.Monto)
             combo == aceptadas[1]
             marcados == labels_marcados(cr, combo)
         IN  IF k \in st.matched_ops THEN familia_banco_loop(fam, vv, Tail(banco), st)
             ELSE IF ~familia_identificada(codigo) /\ extraer_apellido(b.Nombre) = <<>>
                  \* mc.py 820: Series.str.upper().strip() raises AttributeError
                  THEN [st EXCEPT !.raised = TRUE]
             ELSE IF Len(cands) < 2 \/ aceptadas = <<>>
                  THEN familia_banco_loop(fam, vv, Tail(banco), st)
             ELSE IF ~(marcados \subseteq {vv[i].label : i \in 1..Len(vv)})
                  \* mc.py 891: .loc with a label the frame does not hold raises KeyError
                  THEN [st EXCEPT !.raised = TRUE]
             ELSE familia_banco_loop(fam, vv, Tail(banco),
                    [st EXCEPT
                       !.nuevos = Append(@, MatchRecord(
                            "MULTI_FACTURAS_FAMILIA_BANCO_PRIMERO", codigo,
                            join_comma([i \in 1..Len(combo) |-> cr[combo[i]].v.Factura]),
                            b, suma_of(cr, combo))),
                       !.usados = @ \cup marcados,
                       !.matched_ops = @ \cup {k}])

\* the value of self.resultados the pass leaves, and whether it raised
matcheo_multifacturas_misma_familia_mismo_dia_caja_result(fam, ventas, banco, old) ==
    LET st == familia_banco_loop(fam, ventas_validas_familia(fam, ventas), banco,
                  [matched_ops |-> matched_ops_of(old), nuevos |-> <<>>,
                   usados |-> {}, raised |-> FALSE])
    IN  IF st.raised THEN [raised |-> TRUE, resultados |-> old]
        ELSE [raised |-> FALSE, resultados |-> concat_resultados(old, st.nuevos)]

----------------------------------------------------------------------------
(* The report: generar_reporte_completo, mc.py 910-975 *)

\* no report has been asked for
SIN_REPORTE == [kind |-> "none"]

\* mc.py 912-914, 973-974: the function returns without the two residual sheets
reporte_no_producido ==
    [kind |-> "reporte", producido |-> FALSE,
     facturas_sin_match |-> <<>>, banco_sin_match |-> <<>>]

\* mc.py 931, 938: self.resultados has the columns 'Familia' and 'Numero_Caja'
\* when a record of pass 1, 2 or 4 is in it; the records of pass 3 have neither
tiene_columnas_resumen(res) == \E i \in 1..Len(res) : res[i].Tipo_Match # "Grupo Familiar"

\* mc.py 944-949: the numbers in the column 'Factura', split at the commas
facturas_con_match_of(res) == UNION {Range(split_comma(res[i].Factura)) : i \in 1..Len(res)}

\* mc.py 951
facturas_sin_match_of(ventas, res) ==
    SelectSeq(ventas, LAMBDA v : v.Factura \notin facturas_con_match_of(res))

\* mc.py 955, 957: Nombre + Fecha.astype(str) + Monto.astype(str); the date text
\* has a fixed width, so the concatenation determines its three parts
clave_concatenada(nombre, fecha, monto) == <<nombre, astype_str_datetime(fecha), monto>>

\* mc.py 955
operaciones_con_match_of(res) ==
    {clave_concatenada(res[i].Nombre_Banco, res[i].Fecha_Banco, res[i].Monto_Banco) :
        i \in 1..Len(res)}

\* mc.py 956-958
banco_sin_match_of(banco, res) ==
    SelectSeq(banco, LAMBDA b :
        clave_concatenada(b.Nombre, b.Fecha, b.Monto) \notin operaciones_con_match_of(res))

\* mc.py 910-975 with the table columns of the run; an exception inside the
\* try block is caught and the sheets after it are not written
generar_reporte_completo_result(f, ventas, banco, res) ==
    IF res = <<>> THEN reporte_no_producido
    ELSE IF ~tiene_columnas_resumen(res) THEN reporte_no_producido
    ELSE IF f.tabla = "banco" \/ (f.tabla = "ventas" /\ f.col = "Factura")
         THEN reporte_no_producido
    ELSE [kind |-> "reporte", producido |-> TRUE,
          facturas_sin_match |-> facturas_sin_match_of(ventas, res),
          banco_sin_match |-> banco_sin_match_of(banco, res)]

----------------------------------------------------------------------------
(* The passes called on tables that may lack a column *)

\* no table lacks a column
NINGUNA == [tabla |-> "ninguna", col |-> "ninguna"]

ColumnasVentas == {"Fecha", "Nombre_Cliente", "Monto", "Factura", "Numero_Caja"}

ColumnasBanco == {"Fecha", "Nombre", "Monto"}

\* one column missing from one table
Faltantes ==
    {[tabla |-> "ventas", col |-> c] : c \in ColumnasVentas}
        \cup {[tabla |-> "banco", col |-> c] : c \in ColumnasBanco}

\* the outcome of a pass that printed its error and returned None
retorno_None(old) == [raised |-> FALSE, none |-> TRUE, resultados |-> old]

\* the outcome of a pass that raised: self.resultados is as it was
excepcion(old) == [raised |-> TRUE, none |-> FALSE, resultados |-> old]

\* the outcome of a pass that ran
retorno(r) == [raised |-> r.raised, none |-> FALSE, resultados |-> r.resultados]

\* mc.py 341-353: col not in self.banco_df.columns / self.ventas_df.columns
exacto_columna_falta(f) ==
    \/ f.tabla = "banco" /\ f.col \in {"Fecha", "Nombre", "Monto"}
    \/ f.tabla = "ventas" /\ f.col \in {"Fecha", "Nombre_Cliente", "Monto"}

\* mc.py 396: venta.get('Factura', '')
ventas_get_Factura(f, ventas) ==
    IF f = [tabla |-> "ventas", col |-> "Factura"]
    THEN [i \in 1..Len(ventas) |-> [ventas[i] EXCEPT !.Factura = ""]]
    ELSE ventas

\* mc.py 338-423 with the column test of 341-353
matcheo_exacto_llamada(f, fam, ventas, banco, old) ==
    IF exacto_columna_falta(f) THEN retorno_None(old)
    ELSE retorno(matcheo_exacto_result(fam, ventas_get_Factura(f, ventas), banco, old))

\* mc.py 443-454: the pass requires the three bank columns and the five invoice columns
dia_caja_columna_falta(f) ==
    \/ f.tabla = "banco" /\ f.col \in {"Fecha", "Nombre", "Monto"}
    \/ f.tabla = "ventas"
          /\ f.col \in {"Fecha", "Nombre_Cliente", "Monto", "Factura", "Numero_Caja"}

\* mc.py 425-634 with the column test of 443-454
matcheo_multifacturas_misma_familia_dia_caja_llamada(f, fam, ventas, banco, old) ==
    IF dia_caja_columna_falta(f) THEN retorno_None(old)
    ELSE retorno(matcheo_multifacturas_misma_familia_dia_caja_result(fam, ventas, banco, old))

\* mc.py 670-707: pass 3 tests no column; the first read of the missing one
\* raises KeyError (671 bank columns, 682 Nombre_Cliente, 687 Fecha, 690 Monto,
\* 698 Factura)
grupo_familiar_KeyError(f, fam, ventas, banco, old) ==
    LET con_familia ==
            {j \in 1..Len(banco) :
                /\ op_key_of(banco[j]) \notin matched_ops_astype_str(old)
                /\ _validar_pertenencia_familia(fam, banco[j].Nombre) # None_code}
    IN  CASE f.tabla = "banco" -> banco # <<>>
          [] f.tabla = "ventas" /\ f.col = "Nombre_Cliente" ->
                con_familia # {} /\ ventas # <<>>
          [] f.tabla = "ventas" /\ f.col \in {"Fecha", "Monto"} ->
                \E j \in con_familia : \E i \in 1..Len(ventas) :
                    _validar_pertenencia_familia(fam, ventas[i].Nombre_Cliente)
                        = _validar_pertenencia_familia(fam, banco[j].Nombre)
          [] f.tabla = "ventas" /\ f.col = "Factura" ->
                Len(matcheo_por_grupo_familiar_result(fam, ventas, banco, old).resultados)
                    > Len(old)
          [] OTHER -> FALSE

\* mc.py 648-715
matcheo_por_grupo_familiar_llamada(f, fam, ventas, banco, old) ==
    IF grupo_familiar_KeyError(f, fam, ventas, banco, old) THEN excepcion(old)
    ELSE retorno(matcheo_por_grupo_familiar_result(fam, ventas, banco, old))

\* mc.py 717-908: the bank columns are tested (749-753); dropna raises KeyError
\* on a missing invoice column (756); subset['Factura'] and subset['Numero_Caja']
\* raise KeyError when a combination is accepted (869-870)
matcheo_multifacturas_misma_familia_mismo_dia_caja_llamada(f, fam, ventas, banco, old) ==
    LET normal ==
            matcheo_multifacturas_misma_familia_mismo_dia_caja_result(fam, ventas, banco, old)
    IN  IF f.tabla = "banco" THEN retorno_None(old)
        ELSE IF f.tabla = "ventas" /\ f.col \in {"Fecha", "Nombre_Cliente", "Monto"}
             THEN excepcion(old)
        ELSE IF f.tabla = "ventas" /\ f.col \in {"Factura", "Numero_Caja"}
                /\ (normal.raised \/ Len(normal.resultados) > Len(old))
             THEN excepcion(old)
        ELSE retorno(normal)

----------------------------------------------------------------------------
(* The tables the engine is run on *)

MaxVentas == 4

MaxBanco == 2

MaxRuns == 2

N_ab == <<"a", " ", "b">>

N_ba == <<"b", " ", "a">>

N_a == <<"a">>

N_c == <<"c">>

N_d == <<"d">>

\* the household registry of the runs: F1 = {"a b", "c"}, F2 = {"d"}
FAMILIAS ==
    [columns |-> <<"Codigo", "Persona_2", "Persona_1">>,
     rows |-> << [Codigo |-> "F1", cells |-> [Persona_1 |-> N_ab, Persona_2 |-> N_c]],
                 [Codigo |-> "F2", cells |-> [Persona_1 |-> N_d, Persona_2 |-> NaN]] >>]

\* an invoice row without its number; amounts in hundredths
Venta(fecha, nombre, monto, caja) ==
    [Fecha |-> fecha, Nombre_Cliente |-> nombre, Monto |-> monto, Numero_Caja |-> caja]

\* the rows an invoice table is taken from, in table order
VentasCatalog ==
    << Venta(1, N_d, 100, 10), Venta(1, NaN, 100, 10), Venta(1, N_ab, 100, 10),
       Venta(1, N_ab, 100, 10), Venta(1, N_c, 200, 10), Venta(2, N_ba, 100, 20),
       Venta(2, N_c, 100, 10), Venta(2, N_c, 100, 10), Venta(2, N_c, 99, 10) >>

\* a bank row: positive amount and a payer name (mc.py 288)
Op(fecha, nombre, monto) == [Fecha |-> fecha, Nombre |-> nombre, Monto |-> monto]

\* the rows a bank table is taken from, in table order
BancoCatalog ==
    << Op(1, N_ab, 100), Op(1, N_ab, 100), Op(1, N_c, 300), Op(1, N_ab, 300),
       Op(1, N_c, 200), Op(2, N_c, 200), Op(2, N_c, 200), Op(2, N_a, 199),
       Op(2, N_a, 201), Op(2, N_ab, 100), Op(2, N_d, 200) >>

\* the invoice number of row i
FacturaId(i) ==
    CASE i = 1 -> "f1" [] i = 2 -> "f2" [] i = 3 -> "f3" [] i = 4 -> "f4"
      [] i = 5 -> "f5" [] i = 6 -> "f6" [] i = 7 -> "f7" [] i = 8 -> "f8"
      [] i = 9 -> "f9" [] i = 10 -> "f10" [] i = 11 -> "f11" [] i = 12 -> "f12"
      [] i = 13 -> "f13" [] i = 14 -> "f14" [] i = 15 -> "f15" [] i = 16 -> "f16"
      [] OTHER -> "f17"

\* the rows of cat at the positions I, in order
RECURSIVE Pick(_, _, _)
Pick(cat, I, i) ==
    IF i > Len(cat) THEN <<>>
    ELSE (IF i \in I THEN <<cat[i]>> ELSE <<>>) \o Pick(cat, I, i + 1)

\* the tables of 1..n rows taken from a catalog
TablesFrom(cat, n) ==
    {Pick(cat, I, 1) : I \in {J \in SUBSET (1..Len(cat)) : Cardinality(J) \in 1..n}}

\* the rows of an invoice table numbered by position
Numerar(t) ==
    [i \in 1..Len(t) |->
        [Fecha |-> t[i].Fecha, Nombre_Cliente |-> t[i].Nombre_Cliente,
         Monto |-> t[i].Monto, Factura |-> FacturaId(i),
         Numero_Caja |-> t[i].Numero_Caja]]

\* the invoice tables
VentasTables == {Numerar(t) : t \in TablesFrom(VentasCatalog, MaxVentas)}

BancoTables == TablesFrom(BancoCatalog, MaxBanco)

NoCall == [kind |-> "none"]

\* the callers of the passes: the function ejecutar_matcheo, and a run of all four passes
Drivers == {"ejecutar_matcheo", "cuatro_pasadas"}

Init ==
    /\ familias_df = FAMILIAS
    /\ ventas_df \in VentasTables
    /\ banco_df \in BancoTables
    /\ resultados = <<>>
    /\ prev = <<>>
    /\ calls = <<>>
    /\ driver \in Drivers
    /\ faltante = NINGUNA
    /\ pc = "matcheo_exacto"
    /\ run = 1
    /\ final1 = <<>>
    /\ reporte = SIN_REPORTE
    /\ arg = NoCall
    /\ ret = NoCall

\* mc.py 1050-1056: ejecutar_matcheo calls pass 1, then pass 2 unless pass 1
\* returned None, and no other pass
ejecutar_matcheo_siguiente(p, none) ==
    CASE p = "matcheo_exacto" -> (IF none THEN "done" ELSE "dia_caja")
      [] p = "dia_caja" -> "done"

\* the pass after p in a run of all four passes
NextPass(p) ==
    CASE p = "matcheo_exacto" -> "dia_caja"
      [] p = "dia_caja" -> "grupo_familiar"
      [] p = "grupo_familiar" -> "familia_banco"
      [] p = "familia_banco" -> "done"

\* one pass called at its place of the run; an exception ends the run
CallPass(p, r) ==
    /\ pc = p
    /\ prev' = resultados
    /\ calls' = Append(calls, p)
    /\ resultados' = r.resultados
    /\ pc' = IF r.raised THEN "error"
             ELSE IF driver = "ejecutar_matcheo" THEN ejecutar_matcheo_siguiente(p, r.none)
             ELSE NextPass(p)
    /\ UNCHANGED <<familias_df, ventas_df, banco_df, driver, faltante, run, final1, arg, ret,
                   reporte>>

matcheo_exacto ==
    CallPass("matcheo_exacto",
             matcheo_exacto_llamada(faltante, familias_df, ventas_df, banco_df, resultados))

matcheo_multifacturas_misma_familia_dia_caja ==
    CallPass("dia_caja",
             matcheo_multifacturas_misma_familia_dia_caja_llamada(
                 faltante, familias_df, ventas_df, banco_df, resultados))

matcheo_por_grupo_familiar ==
    CallPass("grupo_familiar",
             matcheo_por_grupo_familiar_llamada(
                 faltante, familias_df, ventas_df, banco_df, resultados))

matcheo_multifacturas_misma_familia_mismo_dia_caja ==
    CallPass("familia_banco",
             matcheo_multifacturas_misma_familia_mismo_dia_caja_llamada(
                 faltante, familias_df, ventas_df, banco_df, resultados))

\* the engine object is run again on the same tables
RunAgain ==
    /\ pc \in {"done", "error"}
    /\ run < MaxRuns
    /\ run' = run + 1
    /\ final1' = IF run = 1 THEN resultados ELSE final1
    /\ pc' = "matcheo_exacto"
    /\ calls' = <<>>
    /\ reporte' = SIN_REPORTE
    /\ UNCHANGED <<familias_df, ventas_df, banco_df, resultados, prev, driver, faltante,
                   arg, ret>>

\* the report is written once the passes have returned
generar_reporte_completo ==
    /\ pc = "done"
    /\ reporte = SIN_REPORTE
    /\ reporte' = generar_reporte_completo_result(faltante, ventas_df, banco_df, resultados)
    /\ UNCHANGED <<familias_df, ventas_df, banco_df, resultados, prev, calls, driver, faltante,
                   pc, run, final1, arg, ret>>

Next ==
    \/ matcheo_exacto
    \/ matcheo_multifacturas_misma_familia_dia_caja
    \/ matcheo_por_grupo_familiar
    \/ matcheo_multifacturas_misma_familia_mismo_dia_caja
    \/ generar_reporte_completo
    \/ RunAgain

Spec == Init /\ [][Next]_vars

\* the runs on tables of which one lacks a column
InitColumnas ==
    /\ familias_df = FAMILIAS
    /\ ventas_df \in VentasTables
    /\ banco_df \in BancoTables
    /\ resultados = <<>>
    /\ prev = <<>>
    /\ calls = <<>>
    /\ driver \in Drivers
    /\ faltante \in Faltantes
    /\ pc = "matcheo_exacto"
    /\ run = 1
    /\ final1 = <<>>
    /\ reporte = SIN_REPORTE
    /\ arg = NoCall
    /\ ret = NoCall

SpecColumnas == InitColumnas /\ [][Next]_vars

\* a registry without households
SIN_FAMILIAS == [columns |-> <<"Codigo", "Persona_2", "Persona_1">>, rows |-> <<>>]

\* invoices of clients with the surname 'x', and one of household F1
VentasCatalogApellido ==
    << Venta(1, <<"n", " ", "x">>, 100, 10), Venta(1, <<"x">>, 100, 10),
       Venta(2, <<"x">>, 100, 10), Venta(1, N_ab, 100, 10), Venta(1, N_c, 100, 10) >>

\* payers of no household: 'n x', 'x' and a blank name; and one of household F1
BancoCatalogApellido ==
    << Op(1, <<"n", " ", "x">>, 200), Op(1, <<" ">>, 200), Op(1, <<"x">>, 100),
       Op(1, N_c, 200) >>

\* the runs on tables with payers the registry does not hold
InitApellido ==
    /\ familias_df \in {FAMILIAS, SIN_FAMILIAS}
    /\ ventas_df \in {Numerar(t) : t \in TablesFrom(VentasCatalogApellido, MaxVentas)}
    /\ banco_df \in TablesFrom(BancoCatalogApellido, MaxBanco)
    /\ resultados = <<>>
    /\ prev = <<>>
    /\ calls = <<>>
    /\ driver \in Drivers
    /\ faltante = NINGUNA
    /\ pc = "matcheo_exacto"
    /\ run = 1
    /\ final1 = <<>>
    /\ reporte = SIN_REPORTE
    /\ arg = NoCall
    /\ ret = NoCall

SpecApellido == InitApellido /\ [][Next]_vars

\* invoice tables of 9 and of 16 equal invoices of household F2, and one of
\* four invoices from four registers
VentasTablesBusqueda ==
    {Numerar([i \in 1..n |-> Venta(1, N_d, 100, 10)]) : n \in {9, 16}}
      \cup {Numerar(<< Venta(1, N_d, 100, 10), Venta(1, N_d, 100, 20),
                       Venta(1, N_d, 49, 30), Venta(1, N_d, 50, 40) >>)}

\* payments of household F2
BancoCatalogBusqueda ==
    << Op(1, N_d, 900), Op(1, N_d, 800), Op(1, N_d, 1600), Op(1, N_d, 199) >>

\* the runs on pools larger than the search of pass 4 takes in
InitBusqueda ==
    /\ familias_df = FAMILIAS
    /\ ventas_df \in VentasTablesBusqueda
    /\ banco_df \in TablesFrom(BancoCatalogBusqueda, 3)
    /\ resultados = <<>>
    /\ prev = <<>>
    /\ calls = <<>>
    /\ driver \in Drivers
    /\ faltante = NINGUNA
    /\ pc = "matcheo_exacto"
    /\ run = 1
    /\ final1 = <<>>
    /\ reporte = SIN_REPORTE
    /\ arg = NoCall
    /\ ret = NoCall

SpecBusqueda == InitBusqueda /\ [][Next]_vars

----------------------------------------------------------------------------
(* The Name Normalizer applied to bounded texts *)

MaxTextLen == 4

NormAlphabet == {"a", "A", "a_acute", "b", " ", ",", "1"}

NormTexts == SeqsUpTo(NormAlphabet, MaxTextLen) \cup {NaN}

InitNormalize ==
    /\ arg \in NormTexts
    /\ ret = NoCall
    /\ pc = "normalize_call"
    /\ familias_df = FAMILIAS
    /\ ventas_df = <<>>
    /\ banco_df = <<>>
    /\ resultados = <<>>
    /\ prev = <<>>
    /\ calls = <<>>
    /\ driver = "ejecutar_matcheo"
    /\ faltante = NINGUNA
    /\ run = 1
    /\ final1 = <<>>
    /\ reporte = SIN_REPORTE

NormalizeCall ==
    /\ pc = "normalize_call"
    /\ ret' = _normalize_to_token_set(arg)
    /\ pc' = "normalize_returned"
    /\ UNCHANGED <<familias_df, ventas_df, banco_df, resultados, prev, calls, driver, faltante,
                   run, final1, arg, reporte>>

SpecNormalize == InitNormalize /\ [][NormalizeCall]_vars

----------------------------------------------------------------------------
(* The Family Resolver applied to bounded names and registries *)

MaxNameLen == 3

MaxFamilias == 2

ResolveAlphabet == {"a", "b", " ", ","}

ResolveNames == SeqsUpTo(ResolveAlphabet, MaxNameLen) \cup {NaN}

\* the household code of registry row i
FamCode(i) == CASE i = 1 -> "F1" [] i = 2 -> "F2" [] OTHER -> "F3"

\* registries of 0..MaxFamilias rows; a cell is absent, punctuation only, or a name
Registries ==
    UNION {{[columns |-> <<"Codigo", "Persona_2", "Persona_1">>,
             rows |-> [i \in 1..n |-> [Codigo |-> FamCode(i), cells |-> c[i]]]] :
                c \in [1..n -> [Persona_1 : {NaN, <<"b">>, <<",">>},
                                Persona_2 : {NaN, N_ab}]]}
           : n \in 0..MaxFamilias}

InitResolve ==
    /\ arg \in ResolveNames
    /\ familias_df \in Registries
    /\ ret = NoCall
    /\ pc = "resolve_call"
    /\ ventas_df = <<>>
    /\ banco_df = <<>>
    /\ resultados = <<>>
    /\ prev = <<>>
    /\ calls = <<>>
    /\ driver = "ejecutar_matcheo"
    /\ faltante = NINGUNA
    /\ run = 1
    /\ final1 = <<>>
    /\ reporte = SIN_REPORTE

ResolveCall ==
    /\ pc = "resolve_call"
    /\ ret' = _obtener_familia_por_persona(familias_df, arg)
    /\ pc' = "resolve_returned"
    /\ UNCHANGED <<familias_df, ventas_df, banco_df, resultados, prev, calls, driver, faltante,
                   run, final1, arg, reporte>>

SpecResolve == InitResolve /\ [][ResolveCall]_vars

----------------------------------------------------------------------------
(* Properties of the match list *)

\* the transaction identity key of a Match Record
IdentityKey(r) == key_upper_strip(r.Fecha_Banco, r.Nombre_Banco, r.Monto_Banco)

\* the invoice numbers a Match Record lists
InvoicesOf(r) == Range(split_comma(r.Factura))

\* the pass that writes a record of the given type
PassOf(tipo) ==
    CASE tipo = "EXACTO" -> 1
      [] tipo = "MULTI_FACTURAS" -> 2
      [] tipo = "Grupo Familiar" -> 3
      [] OTHER -> 4

\* the records of one type
RecordsOfType(tipo) == SelectSeq(resultados, LAMBDA r : r.Tipo_Match = tipo)

\* no two records of the sequence list a common invoice
PairwiseDisjointInvoices(recs) ==
    \A i, j \in 1..Len(recs) : i < j => InvoicesOf(recs[i]) \cap InvoicesOf(recs[j]) = {}

\* C1 (invariant I1): when the pipeline has run its four passes, no two Match
\* Records of the final match list carry the same transaction identity key.
C1_UniqueTransactionKey ==
    pc = "done" =>
        \A i, j \in 1..Len(resultados) :
            i < j => IdentityKey(resultados[i]) # IdentityKey(resultados[j])

\* C2 (invariant I2): an invoice number listed by a Match Record of one pass
\* is listed by no Match Record of a later pass.
C2_InvoiceNotReusedByLaterPass ==
    \A i, j \in 1..Len(resultados) :
        PassOf(resultados[i].Tipo_Match) < PassOf(resultados[j].Tipo_Match)
            => InvoicesOf(resultados[i]) \cap InvoicesOf(resultados[j]) = {}

\* C3: no invoice is listed by two Match Records of pass 4.
C3_Pass4InvoiceUsedOnce ==
    PairwiseDisjointInvoices(RecordsOfType("MULTI_FACTURAS_FAMILIA_BANCO_PRIMERO"))

\* C4: an invoice is listed by at most one MULTI_FACTURAS record of pass 2.
C4_Pass2InvoiceUsedOnce ==
    PairwiseDisjointInvoices(RecordsOfType("MULTI_FACTURAS"))

\* C5: a second run of the whole pipeline on the same inputs ends with the
\* final match list of the first run: no transaction identity key matched by
\* the first run gets a further Match Record.
C5_SecondRunSameList ==
    (run >= 2 /\ pc \in {"done", "error"}) => resultados = final1

\* a second run has ended on a list of several records
C5_Witness ==
    run >= 2 /\ pc = "done" /\ Len(resultados) >= 2 /\ final1 # <<>>

----------------------------------------------------------------------------
(* Properties of the Family Resolver and of the Name Normalizer *)

\* the person-slot columns of a registry
PersonSlots(fam) == {c \in Range(fam.columns) : is_persona_lower(c)}

\* one token set is equal to, a subset of, or a superset of the other
Related(q, t) == q = t \/ q \subseteq t \/ t \subseteq q

\* the entries with a filled slot whose token set is related to the query's
EntriesRelated(fam, q) ==
    {i \in 1..Len(fam.rows) :
        \E c \in PersonSlots(fam) :
            /\ ~isna(fam.rows[i].cells[c])
            /\ Related(q, _normalize_to_token_set(fam.rows[i].cells[c]))}

\* the same, counting only slots whose token set is not empty
EntriesRelatedNonEmpty(fam, q) ==
    {i \in 1..Len(fam.rows) :
        \E c \in PersonSlots(fam) :
            /\ _normalize_to_token_set(fam.rows[i].cells[c]) # {}
            /\ Related(q, _normalize_to_token_set(fam.rows[i].cells[c]))}

\* the result the contract names, given the entries that qualify
ResolverContract(fam, name, entries) ==
    IF isna(name) \/ name = <<>> THEN NO_IDENTIFICADA
    ELSE IF entries = {} THEN NO_ENCONTRADA
    ELSE fam.rows[CHOOSE i \in entries : \A j \in entries : i <= j].Codigo

\* C6 as stated: resolve(name) is NOT_IDENTIFIED for an empty or absent name,
\* otherwise the code of the first registry entry with a slot whose token set
\* is equal to, a subset of, or a superset of the query's token set, and
\* NOT_FOUND when no entry has such a slot.
C6_ResolverAsStated ==
    pc = "resolve_returned" =>
        ret = ResolverContract(familias_df, arg,
                  EntriesRelated(familias_df, _normalize_to_token_set(arg)))

\* C6, amended: the same result, where only a slot whose token set is not
\* empty can make an entry qualify.
C6_ResolverNonEmptySlots ==
    pc = "resolve_returned" =>
        ret = ResolverContract(familias_df, arg,
                  EntriesRelatedNonEmpty(familias_df, _normalize_to_token_set(arg)))

\* the first entry holds only a punctuation slot and the second entry is returned
C6_Witness ==
    /\ pc = "resolve_returned"
    /\ Len(familias_df.rows) = 2
    /\ familias_df.rows[1].cells.Persona_1 = <<",">>
    /\ familias_df.rows[1].cells.Persona_2 = NaN
    /\ arg = <<"b", " ", "a">>
    /\ ret = "F2"

\* the words of a text joined by single blanks
RECURSIVE JoinSpace(_)
JoinSpace(words) ==
    IF words = <<>> THEN <<>>
    ELSE IF Len(words) = 1 THEN words[1]
    ELSE words[1] \o <<" ">> \o JoinSpace(Tail(words))

\* the letter a character stands for once accents and case are ignored;
\* punctuation and whitespace are one separator
BaseLetter(c) ==
    CASE c \in {"a", "A", "a_acute", "A_ACUTE"} -> "A"
      [] c \in {"b", "B"} -> "B"
      [] c \in {"n", "N", "n_tilde", "N_TILDE"} -> "N"
      [] c \in Whitespace \cup Punctuation -> " "
      [] OTHER -> c

\* the texts that differ from t only in accents, case or punctuation for whitespace
RECURSIVE AccentCasePunctuationVariants(_)
AccentCasePunctuationVariants(t) ==
    IF t = <<>> THEN {<<>>}
    ELSE {<<c>> \o w : c \in {d \in NormAlphabet : BaseLetter(d) = BaseLetter(t[1])},
                       w \in AccentCasePunctuationVariants(Tail(t))}

\* the texts made of the words of t in another order
TokenOrderVariants(t) ==
    LET words == split(t)
    IN  {JoinSpace([i \in 1..Len(words) |-> words[p[i]]]) :
            p \in Orderings(1..Len(words))}

\* C7: the token set of a name is unchanged by normalizing its own output
\* again, by permuting the name's tokens, and by changing only accents,
\* letter case, or punctuation for whitespace.
C7_NormalizerEquivalences ==
    pc = "normalize_returned" =>
        /\ \A o \in Orderings(ret) : _normalize_to_token_set(JoinSpace(o)) = ret
        /\ ~isna(arg) =>
              /\ \A v \in TokenOrderVariants(arg) : _normalize_to_token_set(v) = ret
              /\ \A v \in AccentCasePunctuationVariants(arg) :
                    _normalize_to_token_set(v) = ret

\* an accented lower-case name with punctuation normalized to two tokens
C7_Witness ==
    /\ pc = "normalize_returned"
    /\ arg = <<"a_acute", ",", "b", "A">>
    /\ ret = {<<"A">>, <<"B", "A">>}

----------------------------------------------------------------------------
(* Properties of the grouped passes *)

\* the transaction identity key of a bank row
BankKey(b) == key_upper_strip(b.Fecha, b.Nombre, b.Monto)

\* the not-yet-matched invoices that share date, till and resolved family with a
GroupOf(vv, a) ==
    SelectSeq(vv, LAMBDA b : /\ b.v.Fecha = a.v.Fecha
                             /\ b.v.Numero_Caja = a.v.Numero_Caja
                             /\ b.Codigo_Familia = a.Codigo_Familia)

\* the amounts of a sequence of annotated invoices, added up
GroupTotal(g) == SumSeq([i \in 1..Len(g) |-> g[i].v.Monto])

\* C8: when pass 2 has been called, for every group of two or more
\* not-yet-matched invoices with the same date, till and resolved family F, and
\* every unconsumed transaction with that date, an amount equal to the group's
\* sum and a payer resolving to F, the match list holds a MULTI_FACTURAS record
\* for that transaction that lists every invoice of the group and carries the
\* group total.
C8_Pass2Completeness ==
    last = "dia_caja" =>
        LET vv == ventas_validas_dia_caja(familias_df, ventas_df, prev)
        IN  \A n \in 1..Len(vv) : \A j \in 1..Len(banco_df) :
              LET g == GroupOf(vv, vv[n])
                  b == banco_df[j]
              IN  ( /\ Len(g) >= 2
                    /\ BankKey(b) \notin matched_ops_of(prev)
                    /\ b.Fecha = vv[n].v.Fecha
                    /\ b.Monto = GroupTotal(g)
                    /\ _obtener_familia_por_persona(familias_df, b.Nombre)
                          = vv[n].Codigo_Familia )
                  => \E i \in 1..Len(resultados) :
                        /\ resultados[i].Tipo_Match = "MULTI_FACTURAS"
                        /\ IdentityKey(resultados[i]) = BankKey(b)
                        /\ InvoicesOf(resultados[i]) = {g[m].v.Factura : m \in 1..Len(g)}
                        /\ resultados[i].Monto_Factura = GroupTotal(g)

\* the sums of the combinations of 2 to 8 invoices of the truncated pool of
\* the family of the bank row b
PoolSums(b) ==
    LET codigo == _obtener_familia_por_persona(familias_df, b.Nombre)
        pool == candidatos_restringidos_of(
                    candidatos_of(ventas_validas_familia(familias_df, ventas_df),
                                  {}, codigo, b.Nombre), b.Fecha)
        combos == combos_in_order(Len(pool), 2, Min(MAX_K, Len(pool)))
    IN  {suma_of(pool, combos[i]) : i \in 1..Len(combos)}

\* the pass 4 records of the match list for the bank row b
Pass4RecordsFor(b) ==
    {i \in 1..Len(resultados) :
        /\ resultados[i].Tipo_Match = "MULTI_FACTURAS_FAMILIA_BANCO_PRIMERO"
        /\ IdentityKey(resultados[i]) = BankKey(b)}

\* C9: when pass 4 has run to its end, for the first transaction of the bank
\* table, unconsumed and with a payer resolving to a family F, the match list
\* holds exactly one pass 4 record if some combination of 2 to 8 invoices of the
\* truncated F pool has a sum within 0.01 of the transaction amount (0.01
\* itself included), and none if every combination differs by more than 0.01.
C9_Pass4Tolerance ==
    (last = "familia_banco" /\ pc = "done") =>
        LET b == banco_df[1]
        IN  ( /\ BankKey(b) \notin matched_ops_of(prev)
              /\ familia_identificada(_obtener_familia_por_persona(familias_df, b.Nombre)) )
            => IF \E sum \in PoolSums(b) : Abs(sum - b.Monto) <= TOL
               THEN Cardinality(Pass4RecordsFor(b)) = 1
               ELSE Pass4RecordsFor(b) = {}

\* the original amount of the invoice with the given number
OriginalAmount(factura) == (CHOOSE v \in Range(ventas_df) : v.Factura = factura).Monto

\* C10: in every Match Record of every pass, Monto_Factura is the sum of the
\* original amounts of the invoices the record lists (for one invoice, that
\* invoice's original amount).
C10_NoAmountDrift ==
    \A i \in 1..Len(resultados) :
        LET listed == split_comma(resultados[i].Factura)
        IN  resultados[i].Monto_Factura
              = SumSeq([m \in 1..Len(listed) |-> OriginalAmount(listed[m])])

\* the final list holds a record of one invoice and records of several invoices
\* written by pass 2 and by pass 4
C10_Witness ==
    /\ pc = "done"
    /\ \E i \in 1..Len(resultados) : Len(split_comma(resultados[i].Factura)) = 1
    /\ \E i \in 1..Len(resultados) :
          /\ resultados[i].Tipo_Match = "MULTI_FACTURAS"
          /\ Len(split_comma(resultados[i].Factura)) >= 2
    /\ \E i \in 1..Len(resultados) :
          /\ resultados[i].Tipo_Match = "MULTI_FACTURAS_FAMILIA_BANCO_PRIMERO"
          /\ Len(split_comma(resultados[i].Factura)) >= 2

----------------------------------------------------------------------------
(* Properties of a run: order of the passes, missing columns, unresolved names *)

\* the four passes in the order of a full run
FourPasses == <<"matcheo_exacto", "dia_caja", "grupo_familiar", "familia_banco">>

\* C11: in a run of the engine the passes are called one after the other in
\* the order Exact, Grouped, Family-Pair, Combinatorial, each one on the match
\* list the passes before it left, and the run ends only when all four have
\* been called exactly once.
C11_PassOrder ==
    [][ /\ (calls' # calls /\ calls' # <<>>) =>
              /\ Len(calls') <= Len(FourPasses)
              /\ calls' = SubSeq(FourPasses, 1, Len(calls'))
              /\ Len(calls') = Len(calls) + 1
              /\ prev' = resultados
        /\ (pc' = "done" /\ pc # "done") => calls' = FourPasses ]_vars

\* the columns a pass needs to do its work
Requires(p, f) ==
    \/ f.tabla = "banco"
    \/ f.tabla = "ventas" /\ f.col \in {"Fecha", "Nombre_Cliente", "Monto"}
    \/ f.tabla = "ventas" /\ f.col = "Factura" /\ p # "matcheo_exacto"
    \/ f.tabla = "ventas" /\ f.col = "Numero_Caja" /\ p = "dia_caja"

\* the passes the driver of the run calls
PassesOfDriver ==
    IF driver = "ejecutar_matcheo" THEN {"matcheo_exacto", "dia_caja"} ELSE Range(FourPasses)

\* C12: when a table lacks a column, no pass raises an exception; a pass that
\* requires the column emits nothing and leaves the match list as it was; and at
\* the end of the run every pass that does not require it has been called.
C12_MissingColumn ==
    faltante # NINGUNA =>
        /\ pc # "error"
        /\ (calls # <<>> /\ Requires(last, faltante)) => resultados = prev
        /\ pc = "done" =>
              \A p \in PassesOfDriver : ~Requires(p, faltante) => p \in Range(calls)

\* a name the resolver does not attach to a household
no_resuelto(nombre) ==
    _obtener_familia_por_persona(familias_df, nombre) \in {NO_ENCONTRADA, NO_IDENTIFICADA}

\* the tables without the rows whose name is not resolved
VentasResueltas == SelectSeq(ventas_df, LAMBDA v : ~no_resuelto(v.Nombre_Cliente))

BancoResuelto == SelectSeq(banco_df, LAMBDA b : ~no_resuelto(b.Nombre))

\* the records the last pass added to the match list
Nuevos == SubSeq(resultados, Len(prev) + 1, Len(resultados))

\* a record that carries an unresolved payer or lists an unresolved invoice
InvolvesUnresolved(r) ==
    \/ no_resuelto(r.Nombre_Banco)
    \/ \E i \in 1..Len(ventas_df) :
          /\ no_resuelto(ventas_df[i].Nombre_Cliente)
          /\ ventas_df[i].Factura \in InvoicesOf(r)

\* what the claim asks of pass 2 or 3, r being the outcome of the same pass on
\* the tables without the unresolved rows
ExcludedFrom(r) ==
    /\ pc = "error" => r.raised
    /\ pc # "error" =>
          /\ \A i \in 1..Len(Nuevos) : ~InvolvesUnresolved(Nuevos[i])
          /\ ~r.raised => resultados = r.resultados

\* C13: rows whose name resolves to NOT_FOUND or NOT_IDENTIFIED are handled by
\* exclusion: passes 2, 3 and 4 raise nothing that they would not raise on the
\* tables without these rows, passes 2 and 3 emit no record that involves such
\* an invoice or transaction, and emit every record they emit without them.
C13_UnresolvedExcluded ==
    /\ last = "dia_caja" =>
          ExcludedFrom(matcheo_multifacturas_misma_familia_dia_caja_result(
                           familias_df, VentasResueltas, BancoResuelto, prev))
    /\ last = "grupo_familiar" =>
          ExcludedFrom(matcheo_por_grupo_familiar_result(
                           familias_df, VentasResueltas, BancoResuelto, prev))
    /\ (last = "familia_banco" /\ pc = "error") =>
          matcheo_multifacturas_misma_familia_mismo_dia_caja_result(
              familias_df, VentasResueltas, banco_df, prev).raised

----------------------------------------------------------------------------
(* The residual sets of the report *)

\* C14: the report of a run holds the two residual sets, also when the match
\* list is empty: the unmatched invoices are exactly the invoices no record
\* names (alone or in a comma-joined list), the unmatched transactions exactly
\* the bank rows whose identity key no record carries.
C14_ResidualSets ==
    reporte # SIN_REPORTE =>
        /\ reporte.producido
        /\ reporte.facturas_sin_match =
              SelectSeq(ventas_df, LAMBDA v :
                  \A i \in 1..Len(resultados) : v.Factura \notin InvoicesOf(resultados[i]))
        /\ reporte.banco_sin_match =
              SelectSeq(banco_df, LAMBDA b :
                  \A i \in 1..Len(resultados) : BankKey(b) # IdentityKey(resultados[i]))

----------------------------------------------------------------------------
(* The criteria of the passes *)

\* the records of the match list that pair the invoice v with the bank row b
ExactRecordsFor(v, b) ==
    {k \in 1..Len(resultados) :
        /\ resultados[k].Tipo_Match = "EXACTO"
        /\ resultados[k].Factura = <<v.Factura>>
        /\ resultados[k].Fecha_Banco = b.Fecha
        /\ resultados[k].Nombre_Banco = b.Nombre
        /\ resultados[k].Monto_Banco = b.Monto}

\* C15: pass 1 leaves an EXACTO record for an invoice and a transaction if and
\* only if the invoice has date, name and amount, the dates are equal, the
\* amounts are equal and the two names have the same normalized token set
\* (whatever the family of the names); there is one record per such transaction.
C15_ExactCriterion ==
    (last = "matcheo_exacto" /\ pc # "error") =>
        \A i \in 1..Len(ventas_df), j \in 1..Len(banco_df) :
            LET v == ventas_df[i]
                b == banco_df[j]
                criterion ==
                    /\ venta_completa(v)
                    /\ b.Fecha = v.Fecha
                    /\ b.Monto = v.Monto
                    /\ _normalize_to_token_set(b.Nombre) =
                           _normalize_to_token_set(v.Nombre_Cliente)
            IN  Cardinality(ExactRecordsFor(v, b)) =
                    IF criterion
                    THEN Cardinality({m \in 1..Len(banco_df) : banco_df[m] = b})
                    ELSE 0

\* no unconsumed bank row has the date of the group g and its total as amount
WithoutCandidates(g) ==
    ~ \E j \in 1..Len(banco_df) :
          /\ BankKey(banco_df[j]) \notin matched_ops_of(prev)
          /\ banco_df[j].Fecha = g[1].v.Fecha
          /\ banco_df[j].Monto = GroupTotal(g)

\* C16: when pass 2 meets a group of two or more invoices for which no
\* unconsumed transaction has the group's date and total, the pass still runs
\* to its end, wherever the group falls in the order of the groups, and the
\* records it appends list no invoice of that group.
C16_GroupWithoutCandidates ==
    last = "dia_caja" =>
        LET vv == ventas_validas_dia_caja(familias_df, ventas_df, prev)
        IN  \A n \in 1..Len(vv) :
              LET g == GroupOf(vv, vv[n])
              IN  (Len(g) >= 2 /\ WithoutCandidates(g)) =>
                      /\ pc # "error"
                      /\ \A k \in 1..Len(Nuevos) :
                            InvoicesOf(Nuevos[k]) \cap {g[m].v.Factura : m \in 1..Len(g)} = {}

\* the rows of the invoice table a record lists
InvoiceRowsOf(r) == SelectSeq(ventas_df, LAMBDA v : v.Factura \in InvoicesOf(r))

\* C17: when pass 2 has run, every MULTI_FACTURAS record lists at least two
\* invoices; they have one date, one till and one resolved family, which is a
\* household code; none of them is named by a record that existed when the pass
\* started; the transaction has the date of the group, the sum of the group's
\* amounts as amount, and a payer resolving to the family of the group.
C17_GroupedSoundness ==
    last = "dia_caja" =>
        \A k \in 1..Len(resultados) :
            resultados[k].Tipo_Match = "MULTI_FACTURAS" =>
                LET r == resultados[k]
                    g == InvoiceRowsOf(r)
                    familia == _obtener_familia_por_persona(familias_df, g[1].Nombre_Cliente)
                IN  /\ Cardinality(InvoicesOf(r)) >= 2
                    /\ Len(g) = Cardinality(InvoicesOf(r))
                    /\ \A m \in 1..Len(g) :
                          /\ g[m].Fecha = g[1].Fecha
                          /\ g[m].Numero_Caja = g[1].Numero_Caja
                          /\ _obtener_familia_por_persona(familias_df, g[m].Nombre_Cliente)
                                = familia
                          /\ \A i \in 1..Len(prev) : g[m].Factura \notin InvoicesOf(prev[i])
                    /\ familia \notin {NO_ENCONTRADA, NO_IDENTIFICADA}
                    /\ r.Fecha_Banco = g[1].Fecha
                    /\ r.Monto_Banco = SumSeq([m \in 1..Len(g) |-> g[m].Monto])
                    /\ _obtener_familia_por_persona(familias_df, r.Nombre_Banco) = familia

\* pass 2 has added a record to a list that held records of pass 1
C17_Witness ==
    /\ last = "dia_caja"
    /\ pc # "error"
    /\ prev # <<>>
    /\ \E k \in 1..Len(Nuevos) : Nuevos[k].Tipo_Match = "MULTI_FACTURAS"

\* C18: pass 3 adds no record for a transaction whose identity key a record of
\* pass 1 or pass 2 carries, and adds at most one record per identity key.
C18_Pass3Ledger ==
    last = "grupo_familiar" =>
        /\ \A k \in 1..Len(Nuevos) : \A i \in 1..Len(prev) :
              IdentityKey(Nuevos[k]) # IdentityKey(prev[i])
        /\ \A k, m \in 1..Len(Nuevos) :
              k < m => IdentityKey(Nuevos[k]) # IdentityKey(Nuevos[m])

\* the positions of the invoices pass 3 may pair with the bank row b: client of
\* the payer's family, amount within 0.01, date within one day
FamilyPairHits(b) ==
    {i \in 1..Len(ventas_df) :
        /\ _validar_pertenencia_familia(familias_df, ventas_df[i].Nombre_Cliente)
              = _validar_pertenencia_familia(familias_df, b.Nombre)
        /\ Abs(b.Monto - ventas_df[i].Monto) <= TOL
        /\ Abs(b.Fecha - ventas_df[i].Fecha) <= 1}

\* the records pass 3 added for the bank row b
FamilyPairRecordsFor(b) ==
    {k \in 1..Len(Nuevos) :
        /\ Nuevos[k].Tipo_Match = "Grupo Familiar"
        /\ IdentityKey(Nuevos[k]) = BankKey(b)}

\* C19: for a transaction that no earlier record and no earlier bank row of
\* the pass consumed and whose payer belongs to a family F, pass 3 adds one
\* 'Grupo Familiar' record, with the first invoice in table order whose client
\* belongs to F, whose amount differs by at most 0.01 and whose date differs by
\* at most one day; it adds none when there is no such invoice.
C19_FamilyPairCriterion ==
    last = "grupo_familiar" =>
        \A j \in 1..Len(banco_df) :
            LET b == banco_df[j]
                hits == FamilyPairHits(b)
                first == CHOOSE i \in hits : \A o \in hits : i <= o
            IN  ( /\ \A i \in 1..Len(prev) : IdentityKey(prev[i]) # BankKey(b)
                  /\ \A m \in 1..(j - 1) : BankKey(banco_df[m]) # BankKey(b)
                  /\ _validar_pertenencia_familia(familias_df, b.Nombre) # None_code )
                => IF hits = {}
                   THEN FamilyPairRecordsFor(b) = {}
                   ELSE /\ Cardinality(FamilyPairRecordsFor(b)) = 1
                        /\ \A k \in FamilyPairRecordsFor(b) :
                              Nuevos[k].Factura = <<ventas_df[first].Factura>>

\* the combination c comes before d: fewer invoices, or as many and
\* lexicographically smaller
Precedes(c, d) ==
    \/ Len(c) < Len(d)
    \/ /\ Len(c) = Len(d)
       /\ \E i \in 1..Len(c) : c[i] < d[i] /\ \A j \in 1..(i - 1) : c[j] = d[j]

\* C20: when pass 4 has run to its end, for the first transaction of the bank
\* table, unconsumed and of an identified family: its pool is ordered by day
\* distance to the transaction, rising, then by amount, falling, and holds at
\* most the first 15 candidates; and the record of the transaction, if any,
\* lists the first combination of 2 to min(8, pool size) invoices, by size and
\* then lexicographically, whose sum is within 0.01 of the transaction amount.
C20_Pass4Selection ==
    (last = "familia_banco" /\ pc = "done") =>
        LET b == banco_df[1]
            codigo == _obtener_familia_por_persona(familias_df, b.Nombre)
            cands == candidatos_of(ventas_validas_familia(familias_df, ventas_df), {},
                                   codigo, b.Nombre)
            pool == candidatos_restringidos_of(cands, b.Fecha)
            combos == Range(combos_in_order(Len(pool), 2, Min(MAX_K, Len(pool))))
            within(c) == Abs(suma_of(pool, c) - b.Monto) <= TOL
            dist(i) == Abs(pool[i].v.Fecha - b.Fecha)
        IN  (BankKey(b) \notin matched_ops_of(prev) /\ familia_identificada(codigo)) =>
              /\ Len(pool) = Min(MAX_CANDIDATOS, Len(cands))
              /\ \A i, j \in 1..Len(pool) :
                    i < j => \/ dist(i) < dist(j)
                             \/ dist(i) = dist(j) /\ pool[i].v.Monto >= pool[j].v.Monto
              /\ \A k \in Pass4RecordsFor(b) :
                    \E c \in combos :
                       /\ within(c)
                       /\ \A d \in combos : within(d) => ~Precedes(d, c)
                       /\ resultados[k].Factura =
                             join_comma([i \in 1..Len(c) |-> pool[c[i]].v.Factura])

----------------------------------------------------------------------------
(* Properties of pass 4 *)

\* the table labels of the invoices whose flag _usado_en_match pass 4 left set
UsadosAfterPass4 ==
    familia_banco_loop(familias_df, ventas_validas_familia(familias_df, ventas_df), banco_df,
        [matched_ops |-> matched_ops_of(prev), nuevos |-> <<>>,
         usados |-> {}, raised |-> FALSE]).usados

\* the table labels of the invoices the records added by the last pass list
LabelsListed ==
    {i - 1 : i \in {n \in 1..Len(ventas_df) :
                       \E k \in 1..Len(Nuevos) : ventas_df[n].Factura \in InvoicesOf(Nuevos[k])}}

\* C21: when pass 4 has run to its end, the invoices whose used flag is set are
\* exactly the invoices listed in the records the pass emitted: every listed
\* invoice is flagged, and an invoice of no accepted combination is not.
C21_Pass4UsedFlags ==
    (last = "familia_banco" /\ pc = "done") => UsadosAfterPass4 = LabelsListed

\* C22: pass 4 adds no record for a transaction whose identity key a record of
\* pass 1, 2 or 3 carries, and adds at most one record per identity key.
C22_Pass4Ledger ==
    last = "familia_banco" =>
        /\ \A k \in 1..Len(Nuevos) : \A i \in 1..Len(prev) :
              IdentityKey(Nuevos[k]) # IdentityKey(prev[i])
        /\ \A k, m \in 1..Len(Nuevos) :
              k < m => IdentityKey(Nuevos[k]) # IdentityKey(Nuevos[m])

\* pass 4 has added a record, and has passed over a consumed transaction for
\* which a combination of its family pool has the very amount
C22_Witness ==
    /\ last = "familia_banco"
    /\ pc = "done"
    /\ Nuevos # <<>>
    /\ \E j \in 1..Len(banco_df) :
          /\ \E i \in 1..Len(prev) : IdentityKey(prev[i]) = BankKey(banco_df[j])
          /\ banco_df[j].Monto \in PoolSums(banco_df[j])

\* C23: in pass 4, for the first transaction of the bank table, unconsumed:
\* when the payer resolves to a family, the pool holds the complete invoices of
\* that family and no other; when it does not, the pass does not raise, the
\* pool holds the invoices whose client name is the payer's name but for case,
\* or contains the payer's last token, and a record for the transaction lists
\* invoices of the pool only.
C23_Pass4Fallback ==
    last = "familia_banco" =>
        LET b == banco_df[1]
            codigo == _obtener_familia_por_persona(familias_df, b.Nombre)
            vv == ventas_validas_familia(familias_df, ventas_df)
            pool == candidatos_of(vv, {}, codigo, b.Nombre)
            apellido == extraer_apellido(b.Nombre)
            esperado ==
                IF codigo \notin {NO_ENCONTRADA, NO_IDENTIFICADA}
                THEN SelectSeq(vv, LAMBDA a :
                         _obtener_familia_por_persona(familias_df, a.v.Nombre_Cliente) = codigo)
                ELSE SelectSeq(vv, LAMBDA a :
                         \/ strip(upper(a.v.Nombre_Cliente)) = strip(upper(b.Nombre))
                         \/ apellido # <<>> /\ contains(upper(a.v.Nombre_Cliente), apellido))
        IN  BankKey(b) \notin matched_ops_of(prev) =>
              /\ (codigo \in {NO_ENCONTRADA, NO_IDENTIFICADA} /\ Len(esperado) < 2)
                    => pc # "error"
              /\ (codigo \notin {NO_ENCONTRADA, NO_IDENTIFICADA} \/ apellido # <<>>)
                    => pool = esperado
              /\ \A k \in 1..Len(Nuevos) :
                    IdentityKey(Nuevos[k]) = BankKey(b) =>
                        InvoicesOf(Nuevos[k]) \subseteq
                            {esperado[i].v.Factura : i \in 1..Len(esperado)}

----------------------------------------------------------------------------
(* Names without tokens *)

\* C24: the resolver returns NOT_FOUND for a name that is present but has an
\* empty token set, whatever the registry holds; and a household is returned
\* only for a slot whose token set is not empty.
C24_EmptyTokenSet ==
    pc = "resolve_returned" =>
        /\ (~isna(arg) /\ arg # <<>> /\ _normalize_to_token_set(arg) = {})
              => ret = NO_ENCONTRADA
        /\ ret \notin {NO_ENCONTRADA, NO_IDENTIFICADA} =>
              \E i \in EntriesRelatedNonEmpty(familias_df, _normalize_to_token_set(arg)) :
                  familias_df.rows[i].Codigo = ret

----------------------------------------------------------------------------
(* The match list grows at its end *)

\* the sequence s is the beginning of the sequence t
IsPrefix(s, t) == Len(s) <= Len(t) /\ SubSeq(t, 1, Len(s)) = s

\* C25 as stated: whichever pass has just run, pass 1 included, the records
\* the list held before it are still there, unchanged and in the same order,
\* and the records of the pass come after them.
C25_AppendOnly == calls # <<>> => IsPrefix(prev, resultados)

\* C25, amended: the same for passes 2, 3 and 4; pass 1 starts the list anew.
C25_AppendOnlyLaterPasses ==
    (calls # <<>> /\ last # "matcheo_exacto") => IsPrefix(prev, resultados)

\* a pass after pass 1 has added a record to a list that held some
C25_Witness ==
    /\ calls # <<>>
    /\ last # "matcheo_exacto"
    /\ prev # <<>>
    /\ Len(resultados) > Len(prev)

----------------------------------------------------------------------------
(* The search of pass 4 *)

\* the number of k-element subsets of n elements
RECURSIVE Binomial(_, _)
Binomial(n, k) == IF k = 0 THEN 1 ELSE (Binomial(n, k - 1) * (n - k + 1)) \div k

\* the sum of Binomial(n, k) over k = lo..hi
RECURSIVE SumBinomial(_, _, _)
SumBinomial(n, lo, hi) ==
    IF lo > hi THEN 0 ELSE Binomial(n, lo) + SumBinomial(n, lo + 1, hi)

\* the state of the loop of pass 4 when it reaches the j-th bank row
Pass4StateAt(j) ==
    familia_banco_loop(familias_df, ventas_validas_familia(familias_df, ventas_df),
        SubSeq(banco_df, 1, j - 1),
        [matched_ops |-> matched_ops_of(prev), nuevos |-> <<>>, usados |-> {},
         raised |-> FALSE])

\* the candidates of the j-th bank row before the cut
CandidatosAt(j) ==
    candidatos_of(ventas_validas_familia(familias_df, ventas_df), Pass4StateAt(j).usados,
                  _obtener_familia_por_persona(familias_df, banco_df[j].Nombre),
                  banco_df[j].Nombre)

\* the pool the search of the j-th bank row runs on
PoolAt(j) == candidatos_restringidos_of(CandidatosAt(j), banco_df[j].Fecha)

\* the outcome of pass 4 called in the current state
Pass4Outcome ==
    matcheo_multifacturas_misma_familia_mismo_dia_caja_llamada(
        faltante, familias_df, ventas_df, banco_df, resultados)

\* C26: whenever pass 4 is called it ends, either raising or returning, with
\* the match list grown by at most one record per transaction; when it has
\* run, for every transaction the pool holds at most 15 invoices and the search
\* visits at most the sum over k = 2..8 of C(15, k) combinations, each of 2 to 8
\* invoices; and every record the pass added lists between 2 and 8 invoices.
C26_Pass4SearchBound ==
    /\ pc = "familia_banco" =>
          /\ Pass4Outcome.raised \in BOOLEAN
          /\ Len(Pass4Outcome.resultados) - Len(resultados) \in 0..Len(banco_df)
    /\ last = "familia_banco" =>
          /\ \A j \in 1..Len(banco_df) :
                LET pool == PoolAt(j)
                    combos == combos_in_order(Len(pool), 2, Min(MAX_K, Len(pool)))
                IN  /\ Len(pool) <= MAX_CANDIDATOS
                    /\ Len(combos) <= SumBinomial(MAX_CANDIDATOS, 2, MAX_K)
                    /\ \A c \in Range(combos) : Len(c) \in 2..MAX_K
          /\ \A k \in 1..Len(Nuevos) : Len(split_comma(Nuevos[k].Factura)) \in 2..MAX_K

\* pass 4 has run on a transaction worth 9 of 16 candidates: the pool was cut
\* to 15, no record was written for it, and a record of 8 invoices was written
C26_Witness ==
    /\ last = "familia_banco"
    /\ pc = "done"
    /\ \E j \in 1..Len(banco_df) :
          /\ Len(CandidatosAt(j)) > MAX_CANDIDATOS
          /\ Len(PoolAt(j)) = MAX_CANDIDATOS
          /\ banco_df[j].Monto = 900
          /\ \A k \in 1..Len(Nuevos) : Nuevos[k].Monto_Banco # 900
    /\ \E k \in 1..Len(Nuevos) : Len(split_comma(Nuevos[k].Factura)) = MAX_K

\* C27: every record pass 4 added for a transaction lists a combination of the
\* transaction's pool whose sum is within 0.01 of the transaction amount, and no
\* combination of 2 to 8 invoices of the pool with fewer invoices has a sum
\* within 0.01 of that amount.
C27_MinimumCardinality ==
    (last = "familia_banco" /\ pc = "done") =>
        \A k \in 1..Len(Nuevos) :
           \E j \in 1..Len(banco_df) :
              LET b == banco_df[j]
                  pool == PoolAt(j)
                  combos == Range(combos_in_order(Len(pool), 2, Min(MAX_K, Len(pool))))
                  within(c) == Abs(suma_of(pool, c) - b.Monto) <= TOL
              IN  /\ Nuevos[k].Fecha_Banco = b.Fecha
                  /\ Nuevos[k].Nombre_Banco = b.Nombre
                  /\ Nuevos[k].Monto_Banco = b.Monto
                  /\ \E c \in combos :
                        /\ Nuevos[k].Factura =
                              join_comma([i \in 1..Len(c) |-> pool[c[i]].v.Factura])
                        /\ within(c)
                        /\ \A d \in combos : within(d) => Len(d) >= Len(c)

====
